---------------------------- MODULE Spec2Model ----------------------------
(***************************************************************************)
(* Model of the orbital backend of orbtk (src/backend/orbital/backend.rs)   *)
(* and of the ScrollViewer widget (src/widget/scroll_viewer.rs).            *)
(*                                                                         *)
(*   - OrbitalBackend::drain_events translates a batch of native orbclient *)
(*     events into toolkit events registered in the event queue;           *)
(*   - OrbitalBackendRunner::run is the frame loop: flag check, world tick,*)
(*     clearing of the update flag, event drain;                           *)
(*   - ScrollViewer::template describes the widget's subtree.              *)
(***************************************************************************)
EXTENDS Integers, Sequences, FiniteSets, TLC

VARIABLES
    mouse_buttons,   \* OrbitalBackend.mouse_buttons: <<left, middle, right>>
    mouse_position,  \* OrbitalBackend.mouse_position: <<x, y>>
    event_queue,     \* OrbitalBackend.event_queue: sequence of registered entries
    has_world,       \* OrbitalBackendRunner.world is Some(_)
    update,          \* the shared "update" cell handed to run
    running,         \* the shared "running" cell handed to run
    pc,              \* position of OrbitalBackendRunner::run
    iteration,       \* number of loop iterations begun by run
    ticks,           \* number of world.run() calls made by run
    drains,          \* number of drain_events calls made by run
    last,            \* record of the most recent drain_events call
    queue_cell,      \* borrow state of the RefCell around the event queue
    backend_cell,    \* borrow state of the RefCell around the backend
    sv_child,        \* ScrollViewer.child: 0 is None, w > 0 is Some(Rc of widget w)
    sv_offset,       \* ScrollViewer.offset
    sv_template,     \* the Template most recently returned by template()
    strong,          \* strong[w]: reference count of the Rc of widget w
    sv_call          \* record of the most recent template() call

backend_vars == <<mouse_buttons, mouse_position, event_queue, last, queue_cell,
                  backend_cell>>
runner_vars  == <<has_world, update, running, pc, iteration, ticks, drains>>
sv_vars      == <<sv_child, sv_offset, sv_template, strong, sv_call>>
vars == <<mouse_buttons, mouse_position, event_queue, has_world, update, running,
          pc, iteration, ticks, drains, last, queue_cell, backend_cell, sv_child,
          sv_offset, sv_template, strong, sv_call>>

---------------------------------------------------------------------------
(* Bounds of the model.                                                    *)

\* longest batch of native events one drain_events call finds pending
MaxNative == 2
\* most entries the event queue holds before a consumer empties it
MaxQueue == 2
\* most iterations of the runner's loop
MaxIter == 2
\* number of distinct child widgets
NumWidgets == 3
\* largest coordinate of a scroll offset
MaxOffset == 2

---------------------------------------------------------------------------
(* Native orbclient events.                                                *)

K_BKSP  == 14
K_UP    == 72
K_DOWN  == 80
K_LEFT  == 75
K_RIGHT == 77

\* Point::default() and one further position
PointDefault == <<0, 0>>
Points == {PointDefault, <<10, 20>>}

\* window sizes carried by resize events (not validated: zero is allowed)
Sizes == {<<400, 300>>, <<0, 0>>}

\* the five scancodes of the lookup table and one outside it (the "a" key)
Scancodes == {K_BKSP, K_UP, K_DOWN, K_LEFT, K_RIGHT, 30}
Characters == {"\n", "a"}

MouseEvents  == {[kind |-> "Mouse", x |-> p[1], y |-> p[2]] : p \in Points}
ButtonEvents == {[kind |-> "Button", left |-> l, middle |-> m, right |-> r] :
                    l \in BOOLEAN, m \in BOOLEAN, r \in BOOLEAN}
KeyEvents    == {[kind |-> "Key", scancode |-> s, character |-> c, pressed |-> b] :
                    s \in Scancodes, c \in Characters, b \in BOOLEAN}
QuitEvents   == {[kind |-> "Quit"]}
ResizeEvents == {[kind |-> "Resize", width |-> s[1], height |-> s[2]] : s \in Sizes}
\* event kinds drain_events has no arm for
OtherEvents  == {[kind |-> "Focus"], [kind |-> "Scroll"]}

\* the batches of at most n native events over an alphabet
Batches(alphabet, n) == UNION {[1..k -> alphabet] : k \in 0..n}

---------------------------------------------------------------------------
(* Toolkit events and the event queue.                                     *)

MouseUpEvent(button, position) ==
    [type |-> "MouseUp", button |-> button, position |-> position]
MouseDownEvent(button, position) ==
    [type |-> "MouseDown", button |-> button, position |-> position]
KeyUpEvent(key)   == [type |-> "KeyUp", key |-> key]
KeyDownEvent(key) == [type |-> "KeyDown", key |-> key]
SystemEventQuit   == [type |-> "SystemQuit"]
\* WindowEventResize with the two fields exchanged
WindowEventResizeSwapped(width, height) ==
    [type |-> "WindowResize", width |-> height, height |-> width]

WindowEventResize(width, height) ==
    [type |-> "WindowResize", width |-> width, height |-> height]

\* EventQueue::register_event(event, priority): the entry joins the end
register_event(queue, event, priority) ==
    Append(queue, [event |-> event, priority |-> priority])

\* Key::from(char): the key built from a raw character
KeyFrom(c) == <<"Char", c>>

---------------------------------------------------------------------------
(* OrbitalBackend::drain_events.                                           *)

\* UpButton with the order of the tests reversed
UpButtonRightFirst(stored) ==
    IF stored[3] THEN "Right" ELSE IF stored[2] THEN "Middle" ELSE "Left"

\* the button of a MouseUp event, resolved from the stored tri-state
UpButton(stored) ==
    IF stored[1] THEN "Left" ELSE IF stored[2] THEN "Middle" ELSE "Right"

\* DownButton with the order of the tests reversed
DownButtonRightFirst(button) ==
    IF button.right THEN "Right" ELSE IF button.middle THEN "Middle" ELSE "Left"

\* the button of a MouseDown event, resolved from the incoming event
DownButton(button) ==
    IF button.left THEN "Left" ELSE IF button.middle THEN "Middle" ELSE "Right"

\* the condition of the MouseUp arm
AllReleased(button) == ~button.left /\ ~button.middle /\ ~button.right

\* ButtonEvent resolving the MouseUp button after the tri-state was overwritten
ButtonEventAfterStore(button, stored, position) ==
    IF AllReleased(button)
    THEN MouseUpEvent(UpButton(<<button.left, button.middle, button.right>>),
                      position)
    ELSE MouseDownEvent(DownButton(button), position)

\* the event registered for a native Button event
ButtonEvent(button, stored, position) ==
    IF AllReleased(button)
    THEN MouseUpEvent(UpButton(stored), position)
    ELSE MouseDownEvent(DownButton(button), position)

\* ResolveKey matching the character before the scancode
ResolveKeyCharacterFirst(scancode, character) ==
    IF character = "\n" THEN <<"Enter">>
    ELSE CASE scancode = K_BKSP  -> <<"Backspace">>
           [] scancode = K_UP    -> <<"Up">>
           [] scancode = K_DOWN  -> <<"Down">>
           [] scancode = K_LEFT  -> <<"Left">>
           [] scancode = K_RIGHT -> <<"Right">>
           [] OTHER -> KeyFrom(character)

\* the key of a native Key event
ResolveKey(scancode, character) ==
    CASE scancode = K_BKSP  -> <<"Backspace">>
      [] scancode = K_UP    -> <<"Up">>
      [] scancode = K_DOWN  -> <<"Down">>
      [] scancode = K_LEFT  -> <<"Left">>
      [] scancode = K_RIGHT -> <<"Right">>
      [] OTHER -> IF character = "\n" THEN <<"Enter">> ELSE KeyFrom(character)

\* KeyEvent with the conventional polarity
KeyEventPressedIsDown(pressed, key) ==
    IF pressed THEN KeyDownEvent(key) ELSE KeyUpEvent(key)

\* the event registered for a native Key event
KeyEvent(pressed, key) ==
    IF pressed THEN KeyUpEvent(key) ELSE KeyDownEvent(key)

\* RefCell::new: no outstanding borrow
CellNew == [count |-> 0, panicked |-> FALSE]

\* RefCell::borrow_mut: panics when a borrow is outstanding
BorrowMut(cell) ==
    IF cell.count = 0 THEN [cell EXCEPT !.count = 1]
    ELSE [cell EXCEPT !.panicked = TRUE]

\* the drop of the RefMut that BorrowMut handed out
DropRefMut(cell) ==
    IF cell.panicked THEN cell ELSE [cell EXCEPT !.count = @ - 1]

\* Register with the RefMut kept alive after the statement
RegisterKeepBorrow(st, event, priority) ==
    LET cell == BorrowMut(st.queue_cell)
    IN  IF cell.panicked THEN [st EXCEPT !.queue_cell = cell, !.unwound = TRUE]
        ELSE [st EXCEPT
                !.event_queue = register_event(@, event, priority),
                !.queue_cell = cell,
                !.peak = IF cell.count > @ THEN cell.count ELSE @]

\* self.event_queue.borrow_mut().register_event(event, priority): the
\* temporary RefMut is dropped when the statement ends
Register(st, event, priority) ==
    LET cell == BorrowMut(st.queue_cell)
    IN  IF cell.panicked THEN [st EXCEPT !.queue_cell = cell, !.unwound = TRUE]
        ELSE [st EXCEPT
                !.event_queue = register_event(@, event, priority),
                !.queue_cell = DropRefMut(cell),
                !.peak = IF cell.count > @ THEN cell.count ELSE @]

\* MouseArm with the commented-out registration of a move event restored
MouseArmRegistering(st, mouse) ==
    Register([st EXCEPT !.mouse_position = <<mouse.x, mouse.y>>],
             [type |-> "MouseMove", position |-> <<mouse.x, mouse.y>>], 0)

\* the arm of EventOption::Mouse
MouseArm(st, mouse) ==
    [st EXCEPT !.mouse_position = <<mouse.x, mouse.y>>]

\* ButtonArm overwriting the stored tri-state before the event is resolved
ButtonArmStoreFirst(st, button) ==
    LET stored == [st EXCEPT
                     !.mouse_buttons = <<button.left, button.middle, button.right>>]
    IN  Register(stored,
                 ButtonEvent(button, stored.mouse_buttons, stored.mouse_position), 0)

\* the arm of EventOption::Button
ButtonArm(st, button) ==
    LET queued == Register(st,
                     ButtonEvent(button, st.mouse_buttons, st.mouse_position), 0)
    IN  [queued EXCEPT
           !.mouse_buttons = <<button.left, button.middle, button.right>>]

\* the arm of EventOption::Key
KeyArm(st, key_event) ==
    Register(st, KeyEvent(key_event.pressed,
                          ResolveKey(key_event.scancode, key_event.character)), 0)

\* QuitArm that also forgets the held buttons
QuitArmResetting(st, quit_event) ==
    [Register(st, SystemEventQuit, 0) EXCEPT
        !.mouse_buttons = <<FALSE, FALSE, FALSE>>]

\* the arm of EventOption::Quit
QuitArm(st, quit_event) == Register(st, SystemEventQuit, 0)

\* the arm of EventOption::Resize
ResizeArm(st, resize_event) ==
    Register(st, WindowEventResize(resize_event.width, resize_event.height), 0)

\* OtherArm that panics at an event it does not know
OtherArmPanicking(st, event) == [st EXCEPT !.unwound = TRUE]

\* the arm _ => {}
OtherArm(st, event) == st

\* one round of the for loop: the backend state st after the native event
HandleEvent(st, event) ==
    CASE event.kind = "Mouse"  -> MouseArm(st, event)
      [] event.kind = "Button" -> ButtonArm(st, event)
      [] event.kind = "Key"    -> KeyArm(st, event)
      [] event.kind = "Quit"   -> QuitArm(st, event)
      [] event.kind = "Resize" -> ResizeArm(st, event)
      [] OTHER -> OtherArm(st, event)

\* HandleEvents that takes only the first pending event
HandleEventsFirstOnly(st, batch) ==
    IF batch = <<>> THEN st ELSE HandleEvent(st, Head(batch))

\* the for loop over the pending native events, in order
RECURSIVE HandleEvents(_, _)
HandleEvents(st, batch) ==
    IF batch = <<>> \/ st.unwound THEN st
    ELSE HandleEvents(HandleEvent(st, Head(batch)), Tail(batch))

\* the backend as drain_events finds it; peak counts the most borrows of the
\* queue's cell outstanding at once, unwound tells that a panic left the loop
BackendState ==
    [mouse_buttons |-> mouse_buttons, mouse_position |-> mouse_position,
     event_queue |-> event_queue, queue_cell |-> queue_cell, peak |-> 0,
     unwound |-> FALSE]

NoDrain ==
    [called |-> FALSE, batch |-> <<>>, buttons |-> <<FALSE, FALSE, FALSE>>,
     position |-> PointDefault, queue_before |-> <<>>, queue_after |-> <<>>,
     iter |-> 0, ticks |-> 0, peak |-> 0, unwound |-> FALSE]

\* the batches a call may find pending: at most MaxNative events, and no
\* more than the queue has room for
Pending(alphabet) ==
    LET room == MaxQueue - Len(event_queue)
    IN  Batches(alphabet, IF room < MaxNative THEN room ELSE MaxNative)

\* drain_events when the window yields the native events of batch; st is the
\* backend when the for loop ends
drain_events(batch) ==
    \E st \in {HandleEvents(BackendState, batch)} :
        /\ mouse_buttons' = st.mouse_buttons
        /\ mouse_position' = st.mouse_position
        /\ event_queue' = st.event_queue
        /\ queue_cell' = st.queue_cell
        /\ last' = [called |-> TRUE, batch |-> batch, buttons |-> mouse_buttons,
                    position |-> mouse_position, queue_before |-> event_queue,
                    queue_after |-> st.event_queue, iter |-> iteration,
                    ticks |-> ticks, peak |-> st.peak, unwound |-> st.unwound]

\* the toolkit's dispatch consumes the queued events
ConsumeEvents ==
    /\ event_queue # <<>>
    /\ event_queue' = <<>>
    /\ last' = NoDrain
    /\ UNCHANGED <<mouse_buttons, mouse_position, queue_cell, backend_cell>>
    /\ UNCHANGED runner_vars
    /\ UNCHANGED sv_vars

---------------------------------------------------------------------------
(* OrbitalBackendRunner.                                                   *)

\* RunOrder with the drain ahead of the world tick
RunOrderDrainFirst(at) ==
    CASE at = "check" -> "drain"
      [] at = "drain" -> "tick"
      [] at = "tick"  -> "clear"
      [] at = "clear" -> "check"

\* RunOrder with the update flag cleared ahead of the world tick
RunOrderClearFirst(at) ==
    CASE at = "check" -> "clear"
      [] at = "clear" -> "tick"
      [] at = "tick"  -> "drain"
      [] at = "drain" -> "check"

\* the order of the statements of the loop body
RunOrder(at) ==
    CASE at = "check" -> "tick"
      [] at = "tick"  -> "clear"
      [] at = "clear" -> "drain"
      [] at = "drain" -> "check"

\* ShouldBreak without the negation
ShouldBreakWhenSet(flag) == flag

\* the loop's exit condition
ShouldBreak(flag) == ~flag

\* BackendRunner::world(world)
SetWorld ==
    /\ pc = "idle"
    /\ ~has_world
    /\ has_world' = TRUE
    /\ UNCHANGED <<update, running, pc, iteration, ticks, drains>>
    /\ UNCHANGED backend_vars
    /\ UNCHANGED sv_vars

\* the call of run
RunCall ==
    /\ pc = "idle"
    /\ pc' = "check"
    /\ UNCHANGED <<has_world, update, running, iteration, ticks, drains>>
    /\ UNCHANGED backend_vars
    /\ UNCHANGED sv_vars

\* CheckRunning as the test of a loop that tests after its body
CheckRunningAfterBody ==
    /\ pc = "check"
    /\ IF iteration > 0 /\ ShouldBreak(running)
       THEN pc' = "stopped" /\ iteration' = iteration
       ELSE /\ iteration < MaxIter
            /\ pc' = RunOrder("check")
            /\ iteration' = iteration + 1
    /\ UNCHANGED <<has_world, update, running, ticks, drains>>
    /\ UNCHANGED backend_vars
    /\ UNCHANGED sv_vars

\* if !running.get() { break; }
CheckRunning ==
    /\ pc = "check"
    /\ IF ShouldBreak(running)
       THEN pc' = "stopped" /\ iteration' = iteration
       ELSE /\ iteration < MaxIter
            /\ pc' = RunOrder("check")
            /\ iteration' = iteration + 1
    /\ UNCHANGED <<has_world, update, running, ticks, drains>>
    /\ UNCHANGED backend_vars
    /\ UNCHANGED sv_vars

\* World::run: the dispatch systems consume the queued events and may write
\* either shared cell
WorldRun ==
    /\ event_queue' = <<>>
    /\ update' \in BOOLEAN
    /\ running' \in BOOLEAN
    /\ backend_cell' = DropRefMut(BorrowMut(backend_cell))

\* WorldTick unwrapping the world: a panic ends run when none is attached
WorldTickUnwrap ==
    /\ pc = "tick"
    /\ IF has_world
       THEN /\ pc' = RunOrder("tick")
            /\ ticks' = ticks + 1
            /\ WorldRun
       ELSE /\ pc' = "stopped"
            /\ UNCHANGED <<ticks, event_queue, update, running, backend_cell>>
    /\ UNCHANGED <<has_world, iteration, drains>>
    /\ UNCHANGED <<mouse_buttons, mouse_position, last, queue_cell>>
    /\ UNCHANGED sv_vars

\* if let Some(world) = &mut self.world { world.run(); }
WorldTick ==
    /\ pc = "tick"
    /\ pc' = RunOrder("tick")
    /\ IF has_world
       THEN /\ ticks' = ticks + 1
            /\ WorldRun
       ELSE UNCHANGED <<ticks, event_queue, update, running, backend_cell>>
    /\ UNCHANGED <<has_world, iteration, drains>>
    /\ UNCHANGED <<mouse_buttons, mouse_position, last, queue_cell>>
    /\ UNCHANGED sv_vars

\* update.set(false);
ClearUpdate ==
    /\ pc = "clear"
    /\ pc' = RunOrder("clear")
    /\ update' = FALSE
    /\ UNCHANGED <<has_world, running, iteration, ticks, drains>>
    /\ UNCHANGED backend_vars
    /\ UNCHANGED sv_vars

\* the native events the runner's model lets the window yield
RunnerAlphabet ==
    ResizeEvents \cup QuitEvents
        \cup {[kind |-> "Focus"], [kind |-> "Mouse", x |-> 10, y |-> 20],
              [kind |-> "Button", left |-> TRUE, middle |-> FALSE, right |-> FALSE],
              [kind |-> "Key", scancode |-> K_UP, character |-> "a", pressed |-> TRUE]}

\* DrainStep with the RefMut of the backend bound outside the statement
DrainStepHoldingBackend ==
    /\ pc = "drain"
    /\ pc' = RunOrder("drain")
    /\ drains' = drains + 1
    /\ backend_cell' = BorrowMut(backend_cell)
    /\ \E batch \in Pending(RunnerAlphabet) : drain_events(batch)
    /\ UNCHANGED <<has_world, update, running, iteration, ticks>>
    /\ UNCHANGED sv_vars

\* self.backend.borrow_mut().drain_events();
DrainStep ==
    /\ pc = "drain"
    /\ pc' = RunOrder("drain")
    /\ drains' = drains + 1
    /\ backend_cell' = DropRefMut(BorrowMut(backend_cell))
    /\ \E batch \in Pending(RunnerAlphabet) : drain_events(batch)
    /\ UNCHANGED <<has_world, update, running, iteration, ticks>>
    /\ UNCHANGED sv_vars

---------------------------------------------------------------------------
(* ScrollViewer.                                                           *)

Widgets == 1..NumWidgets
Offsets == (0..MaxOffset) \X (0..MaxOffset)
OffsetDefault == <<0, 0>>

TemplateEmpty == [kind |-> "Empty"]
TemplateSingle(rc) == [kind |-> "Single", child |-> rc]

\* what the references of a dropped Template release
Release(counts, template) ==
    IF template.kind = "Single"
    THEN [counts EXCEPT ![template.child] = @ - 1]
    ELSE counts

\* Rc::clone: the same allocation, one more strong reference
RcClone(counts, rc) == [counts EXCEPT ![rc] = @ + 1]

\* TemplateOf of a widget that never describes a child
TemplateOfAlwaysEmpty(child) == TemplateEmpty

\* the Template of a widget whose child field is child
TemplateOf(child) ==
    IF child # 0 THEN TemplateSingle(child) ELSE TemplateEmpty

\* Widget::template for ScrollViewer; the caller drops the template it held
Template ==
    /\ sv_template' = TemplateOf(sv_child)
    /\ strong' = LET released == IF sv_template = <<>> THEN strong
                                 ELSE Release(strong, sv_template)
                 IN  IF sv_template'.kind = "Single"
                     THEN RcClone(released, sv_template'.child)
                     ELSE released
    /\ UNCHANGED <<sv_child, sv_offset>>
    /\ sv_call' = [called |-> TRUE, child_before |-> sv_child,
                   offset_before |-> sv_offset, child_after |-> sv_child',
                   offset_after |-> sv_offset']
    /\ UNCHANGED backend_vars
    /\ UNCHANGED runner_vars

\* a tree builder attaches the child w (the field is public)
AttachChild(w) ==
    /\ sv_child # w
    /\ sv_child' = w
    /\ strong' = LET dropped == IF sv_child # 0
                                THEN [strong EXCEPT ![sv_child] = @ - 1]
                                ELSE strong
                 IN  [dropped EXCEPT ![w] = @ + 1]
    /\ UNCHANGED <<sv_offset, sv_template, sv_call>>
    /\ UNCHANGED backend_vars
    /\ UNCHANGED runner_vars

\* the offset property is written through its binding
SetOffset(o) ==
    /\ sv_offset # o
    /\ sv_offset' = o
    /\ UNCHANGED <<sv_child, sv_template, strong, sv_call>>
    /\ UNCHANGED backend_vars
    /\ UNCHANGED runner_vars

---------------------------------------------------------------------------
(* Specifications.                                                         *)

\* OrbitalBackend::new, an OrbitalBackendRunner without world, the two
\* shared cells as the caller of run set them, ScrollViewer::default()
Init ==
    /\ mouse_buttons = <<FALSE, FALSE, FALSE>>
    /\ mouse_position = PointDefault
    /\ event_queue = <<>>
    /\ last = NoDrain
    /\ queue_cell = CellNew
    /\ backend_cell = CellNew
    /\ has_world = FALSE
    /\ update \in BOOLEAN
    /\ running \in BOOLEAN
    /\ pc = "idle"
    /\ iteration = 0
    /\ ticks = 0
    /\ drains = 0
    /\ sv_child = 0
    /\ sv_offset = OffsetDefault
    /\ sv_template = <<>>
    /\ strong = [w \in Widgets |-> 0]
    /\ sv_call = [called |-> FALSE]

\* the runner's loop
Next ==
    \/ SetWorld
    \/ RunCall
    \/ CheckRunning
    \/ WorldTick
    \/ ClearUpdate
    \/ DrainStep

Spec == Init /\ [][Next]_vars

\* drain_events called with batches of mouse-move and button events
DrainMouse ==
    /\ \E batch \in Pending(MouseEvents \cup ButtonEvents) : drain_events(batch)
    /\ UNCHANGED backend_cell
    /\ UNCHANGED runner_vars
    /\ UNCHANGED sv_vars

NextMouse == DrainMouse \/ ConsumeEvents

SpecMouse == Init /\ [][NextMouse]_vars

\* drain_events called with batches of key events
DrainKeys ==
    /\ \E batch \in Pending(KeyEvents) : drain_events(batch)
    /\ UNCHANGED backend_cell
    /\ UNCHANGED runner_vars
    /\ UNCHANGED sv_vars

NextKeys == DrainKeys \/ ConsumeEvents

SpecKeys == Init /\ [][NextKeys]_vars

\* quit events with the two values of the raw event that to_option drops
QuitPayloadEvents == {[kind |-> "Quit", payload |-> p] : p \in {0, 1}}

\* drain_events called with batches of quit events, of events of kinds it has
\* no arm for, and of the mouse events that set the stored state
SystemAlphabet ==
    QuitPayloadEvents \cup OtherEvents
        \cup {[kind |-> "Mouse", x |-> 10, y |-> 20],
              [kind |-> "Button", left |-> FALSE, middle |-> TRUE, right |-> FALSE]}

DrainSystem ==
    /\ \E batch \in Pending(SystemAlphabet) : drain_events(batch)
    /\ UNCHANGED backend_cell
    /\ UNCHANGED runner_vars
    /\ UNCHANGED sv_vars

NextSystem == DrainSystem \/ ConsumeEvents

SpecSystem == Init /\ [][NextSystem]_vars

\* the ScrollViewer widget
NextSV ==
    \/ Template
    \/ \E w \in Widgets : AttachChild(w)
    \/ \E o \in Offsets : SetOffset(o)

SpecSV == Init /\ [][NextSV]_vars

---------------------------------------------------------------------------
(* What a drain_events call did, read from its record.                     *)

\* the entries the last drain_events call added to the queue
Emitted ==
    SubSeq(last.queue_after, Len(last.queue_before) + 1, Len(last.queue_after))

\* the events of the emitted entries whose type is in types, in order
EmittedOf(types) ==
    LET sel == SelectSeq(Emitted, LAMBDA q : q.event.type \in types)
    IN  [k \in 1..Len(sel) |-> sel[k].event]

MouseOut == EmittedOf({"MouseUp", "MouseDown"})
KeyOut   == EmittedOf({"KeyUp", "KeyDown"})

\* the positions in the last batch of the native events of a kind
OfKind(kind) == {i \in 1..Len(last.batch) : last.batch[i].kind = kind}

\* the position in the last batch of the k-th native event of a kind
NthOfKind(kind, k) ==
    CHOOSE i \in OfKind(kind) : Cardinality({j \in OfKind(kind) : j <= i}) = k

\* the stored tri-state when the i-th native event of the last batch arrived:
\* the flags of the closest earlier Button event, else those before the call
StoredBefore(i) ==
    LET js == {j \in OfKind("Button") : j < i}
    IN  IF js = {} THEN last.buttons
        ELSE LET j == CHOOSE m \in js : \A n \in js : n <= m
             IN  <<last.batch[j].left, last.batch[j].middle, last.batch[j].right>>

\* the recorded position when the i-th native event of the last batch arrived
PositionBefore(i) ==
    LET js == {j \in OfKind("Mouse") : j < i}
    IN  IF js = {} THEN last.position
        ELSE LET j == CHOOSE m \in js : \A n \in js : n <= m
             IN  <<last.batch[j].x, last.batch[j].y>>

Flags(button) == <<button.left, button.middle, button.right>>
ButtonIndex(name) ==
    CASE name = "Left" -> 1 [] name = "Middle" -> 2 [] name = "Right" -> 3
NoButtons == <<FALSE, FALSE, FALSE>>

---------------------------------------------------------------------------
(* Claims about the translation of Button events.                          *)

\* C1: every native Button event that changes the tri-state yields exactly
\* one mouse event, a MouseUp whose button went from held to released or a
\* MouseDown whose button went from released to held.
C1_OneEventPerTransitionByDiff ==
    last.called =>
        /\ Len(MouseOut) = Cardinality(OfKind("Button"))
        /\ \A k \in 1..Len(MouseOut) :
              LET i    == NthOfKind("Button", k)
                  prev == StoredBefore(i)
                  new  == Flags(last.batch[i])
                  b    == ButtonIndex(MouseOut[k].button)
              IN  prev # new =>
                     IF MouseOut[k].type = "MouseUp"
                     THEN prev[b] /\ ~new[b]
                     ELSE ~prev[b] /\ new[b]

\* C2: a Button event yields a MouseUp exactly when its three flags are all
\* false; the MouseUp names Left if left was stored as held, else Middle if
\* middle was, else Right; one Button event never yields two events.
C2_MouseUpIffAllReleased ==
    last.called =>
        /\ Len(MouseOut) = Cardinality(OfKind("Button"))
        /\ \A k \in 1..Len(MouseOut) :
              LET i    == NthOfKind("Button", k)
                  prev == StoredBefore(i)
                  new  == Flags(last.batch[i])
              IN  /\ (MouseOut[k].type = "MouseUp") <=> (new = NoButtons)
                  /\ MouseOut[k].type = "MouseUp" =>
                        /\ prev[1] => MouseOut[k].button = "Left"
                        /\ ~prev[1] /\ prev[2] => MouseOut[k].button = "Middle"
                        /\ ~prev[1] /\ ~prev[2] => MouseOut[k].button = "Right"

\* C2 witness: middle and right were held, one Button event released both,
\* and the call queued a single event, the MouseUp of Middle.
C2_Witness ==
    /\ last.called
    /\ last.buttons = <<FALSE, TRUE, TRUE>>
    /\ Len(last.batch) = 1
    /\ last.batch[1].kind = "Button"
    /\ Flags(last.batch[1]) = NoButtons
    /\ Len(Emitted) = 1
    /\ Emitted[1].event = MouseUpEvent("Middle", last.position)

\* C3: whenever a Button event holds a button that the stored tri-state has
\* released, the event queued is a MouseDown and its button is one that the
\* stored tri-state has released and the incoming event has held.
C3_MouseDownButtonNewlyPressed ==
    last.called =>
        \A k \in 1..Len(MouseOut) :
            LET i    == NthOfKind("Button", k)
                prev == StoredBefore(i)
                new  == Flags(last.batch[i])
                b    == ButtonIndex(MouseOut[k].button)
            IN  (\E n \in 1..3 : ~prev[n] /\ new[n]) =>
                    /\ MouseOut[k].type = "MouseDown"
                    /\ ~prev[b] /\ new[b]

\* C4: from the all-released state with recorded position p, the stream
\* [Button{only b}, Button{none}] queues exactly MouseDown{b, p} and then
\* MouseUp{b, p}.
C4_PressRelease ==
    \A b \in {"Left", "Middle", "Right"} :
        LET only == [i \in 1..3 |-> i = ButtonIndex(b)]
        IN  (/\ last.called
             /\ last.buttons = NoButtons
             /\ Len(last.batch) = 2
             /\ last.batch[1].kind = "Button" /\ Flags(last.batch[1]) = only
             /\ last.batch[2].kind = "Button" /\ Flags(last.batch[2]) = NoButtons)
            => Emitted = << [event |-> [type |-> "MouseDown", button |-> b,
                                        position |-> last.position],
                             priority |-> 0],
                            [event |-> [type |-> "MouseUp", button |-> b,
                                        position |-> last.position],
                             priority |-> 0] >>

\* C4 witness: the position (10, 20) was recorded by an earlier call, and a
\* call found the left button pressed and released.
C4_Witness ==
    /\ last.called
    /\ last.buttons = NoButtons
    /\ last.position = <<10, 20>>
    /\ last.batch = << [kind |-> "Button", left |-> TRUE, middle |-> FALSE,
                        right |-> FALSE],
                       [kind |-> "Button", left |-> FALSE, middle |-> FALSE,
                        right |-> FALSE] >>
    /\ Len(event_queue) = Len(last.queue_before) + 2
    /\ mouse_buttons = NoButtons

---------------------------------------------------------------------------
(* Claims about the translation of Key events.                             *)

\* C5: the key of a Key event is the scancode's key when the scancode is
\* that of Backspace, Up, Down, Left or Right, whatever the character;
\* otherwise Enter for the character "\n" and the character's own key for
\* any other character.
C5_ScancodeBeforeCharacter ==
    last.called =>
        /\ Len(KeyOut) = Cardinality(OfKind("Key"))
        /\ \A k \in 1..Len(KeyOut) :
              LET e   == last.batch[NthOfKind("Key", k)]
                  key == KeyOut[k].key
              IN  /\ e.scancode = 14 => key = <<"Backspace">>
                  /\ e.scancode = 72 => key = <<"Up">>
                  /\ e.scancode = 80 => key = <<"Down">>
                  /\ e.scancode = 75 => key = <<"Left">>
                  /\ e.scancode = 77 => key = <<"Right">>
                  /\ e.scancode \notin {14, 72, 80, 75, 77} =>
                        /\ e.character = "\n" => key = <<"Enter">>
                        /\ e.character # "\n" => key = <<"Char", e.character>>

\* C5 witness: a Key event with the scancode of Up and the character "\n"
\* was translated, and the key queued is Up.
C5_Witness ==
    /\ last.called
    /\ Len(last.batch) = 1
    /\ last.batch[1].kind = "Key"
    /\ last.batch[1].scancode = K_UP
    /\ last.batch[1].character = "\n"
    /\ Len(Emitted) = 1
    /\ Emitted[1].event.key = <<"Up">>

\* C6: every Key event queues exactly one key event, a KeyUp when the
\* native pressed flag is true and a KeyDown when it is false.
C6_PressedGivesKeyUp ==
    last.called =>
        /\ Len(KeyOut) = Cardinality(OfKind("Key"))
        /\ \A k \in 1..Len(KeyOut) :
              LET e == last.batch[NthOfKind("Key", k)]
              IN  /\ e.pressed => KeyOut[k].type = "KeyUp"
                  /\ ~e.pressed => KeyOut[k].type = "KeyDown"

\* C6 witness: a call found a pressed and then a released Key event and
\* queued a KeyUp followed by a KeyDown.
C6_Witness ==
    /\ last.called
    /\ Len(last.batch) = 2
    /\ last.batch[1].kind = "Key" /\ last.batch[1].pressed
    /\ last.batch[2].kind = "Key" /\ ~last.batch[2].pressed
    /\ Len(Emitted) = 2
    /\ Emitted[1].event.type = "KeyUp"
    /\ Emitted[2].event.type = "KeyDown"

---------------------------------------------------------------------------
(* Claims about the runner's loop.                                         *)

RunningPositions == {"check", "tick", "clear", "drain"}

\* C7: when the loop is about to tick the world in iteration N it has made
\* N - 1 drain_events calls, the last of them in iteration N - 1, and the
\* queue is as that call left it: nothing was drained between the flag
\* check and the tick, and the tick of iteration N is the first to find the
\* events drained in iteration N - 1.
C7_TickBeforeDrain ==
    pc = "tick" =>
        /\ drains = iteration - 1
        /\ iteration = 1 => ~last.called
        /\ iteration > 1 =>
              /\ last.called
              /\ last.iter = iteration - 1
              /\ last.ticks = ticks
              /\ event_queue = last.queue_after

\* C7 witness: the second iteration is about to tick an attached world and
\* the events drained in the first iteration are waiting in the queue.
C7_Witness ==
    /\ pc = "tick"
    /\ has_world
    /\ iteration = 2
    /\ ticks = 1
    /\ drains = 1
    /\ event_queue # <<>>

\* C8: once the running flag is false inside run, no step ticks the world,
\* begins an iteration or sets the flag again, and the next flag check
\* leaves the loop.
C8_StopWithinOneIteration ==
    [][ (pc \in RunningPositions /\ ~running) =>
            /\ ticks' = ticks
            /\ iteration' = iteration
            /\ ~running'
            /\ pc' # "tick"
            /\ pc = "check" => pc' = "stopped" ]_vars

\* C8 witness: the tick of the first iteration cleared the flag, the
\* iteration ran to its end and the loop stopped without another tick.
C8_Witness ==
    /\ pc = "stopped"
    /\ ~running
    /\ iteration = 1
    /\ ticks = 1
    /\ drains = 1

ResizeOut == EmittedOf({"WindowResize"})

\* C9: every native Resize event queues exactly one WindowResize with the
\* same width and height; a call of the runner that finds one Resize event
\* pending, with a world attached, comes after exactly one tick per
\* iteration and leaves that one WindowResize at the end of the queue, where
\* it stays until the next tick.
C9_ResizeQueued ==
    last.called =>
        /\ Len(ResizeOut) = Cardinality(OfKind("Resize"))
        /\ \A k \in 1..Len(ResizeOut) :
              LET e == last.batch[NthOfKind("Resize", k)]
              IN  ResizeOut[k] = [type |-> "WindowResize", width |-> e.width,
                                  height |-> e.height]
        /\ (has_world /\ Len(last.batch) = 1 /\ last.batch[1].kind = "Resize") =>
              /\ last.ticks = last.iter
              /\ Emitted = << [event |-> [type |-> "WindowResize",
                                          width |-> last.batch[1].width,
                                          height |-> last.batch[1].height],
                               priority |-> 0] >>
              /\ (pc = "check" \/ (pc = "tick" /\ iteration = last.iter + 1)) =>
                    event_queue = last.queue_after

\* C9 witness: the first iteration ticked the world once and then found the
\* Resize event {400, 300}; WindowResize{400, 300} waits for the second tick.
C9_Witness ==
    /\ has_world
    /\ pc = "tick"
    /\ iteration = 2
    /\ ticks = 1
    /\ last.called
    /\ last.batch = << [kind |-> "Resize", width |-> 400, height |-> 300] >>
    /\ event_queue = << [event |-> [type |-> "WindowResize", width |-> 400,
                                    height |-> 300],
                         priority |-> 0] >>

---------------------------------------------------------------------------
(* Claims about ScrollViewer.                                              *)

\* C10: template() returns the empty template when the child field is None
\* and otherwise a single-child template holding one more reference to the
\* very widget the child field refers to; it changes neither the child nor
\* the offset; the first call on a default ScrollViewer returns the empty
\* template.
C10_TemplateFollowsChild ==
    sv_call.called =>
        /\ sv_call.child_after = sv_call.child_before
        /\ sv_call.offset_after = sv_call.offset_before
        /\ sv_call.child_before = 0 => sv_template = [kind |-> "Empty"]
        /\ sv_call.child_before # 0 =>
              /\ sv_template = [kind |-> "Single", child |-> sv_call.child_before]
              /\ sv_child = sv_call.child_before => strong[sv_child] = 2

\* C10 witness: widget 2 is attached, template() was called and its result
\* shares widget 2 with the child field.
C10_Witness ==
    /\ sv_call.called
    /\ sv_call.child_before = 2
    /\ sv_child = 2
    /\ sv_template = [kind |-> "Single", child |-> 2]
    /\ strong[2] = 2

---------------------------------------------------------------------------
(* Claims about the other arms of drain_events and about its frame.        *)

\* the stored tri-state and the recorded position the last batch leaves
StoredAfter   == StoredBefore(Len(last.batch) + 1)
PositionAfter == PositionBefore(Len(last.batch) + 1)

QuitOut == EmittedOf({"SystemQuit"})

\* C11: every native Quit event queues exactly one SystemQuit, the same
\* whatever the event carried, and a batch of Quit events leaves the stored
\* tri-state and the recorded position as they were.
C11_QuitQueuesSystemQuit ==
    last.called =>
        /\ Len(QuitOut) = Cardinality(OfKind("Quit"))
        /\ \A k \in 1..Len(QuitOut) : QuitOut[k] = [type |-> "SystemQuit"]
        /\ OfKind("Quit") = 1..Len(last.batch) =>
              /\ Len(Emitted) = Len(last.batch)
              /\ mouse_buttons = last.buttons
              /\ mouse_position = last.position

\* C11 witness: middle is held at (10, 20); a call found two Quit events
\* with different payloads and queued two SystemQuit events.
C11_Witness ==
    /\ last.called
    /\ last.buttons = <<FALSE, TRUE, FALSE>>
    /\ last.position = <<10, 20>>
    /\ last.batch = << [kind |-> "Quit", payload |-> 0],
                       [kind |-> "Quit", payload |-> 1] >>
    /\ Len(Emitted) = 2
    /\ mouse_buttons = <<FALSE, TRUE, FALSE>>

\* C12: a native mouse-move event sets the recorded position to its (x, y)
\* and does nothing else: the call queues one event per Button event and
\* none for a move, every queued event is a MouseUp or a MouseDown, the
\* recorded position is that of the last move, and a batch of moves leaves
\* the queue and the stored tri-state as they were.
C12_MouseMoveOnlyRecords ==
    last.called =>
        /\ Len(Emitted) = Cardinality(OfKind("Button"))
        /\ \A k \in 1..Len(Emitted) :
              Emitted[k].event.type \in {"MouseUp", "MouseDown"}
        /\ mouse_position = PositionAfter
        /\ (last.batch # <<>> /\ OfKind("Mouse") = 1..Len(last.batch)) =>
              /\ event_queue = last.queue_before
              /\ mouse_buttons = last.buttons
              /\ mouse_position = << last.batch[Len(last.batch)].x,
                                     last.batch[Len(last.batch)].y >>

\* C12 witness: with right held and one event queued, a call found the move
\* to (10, 20): the position changed, the queue and the tri-state did not.
C12_Witness ==
    /\ last.called
    /\ last.batch = << [kind |-> "Mouse", x |-> 10, y |-> 20] >>
    /\ last.position = <<0, 0>>
    /\ last.buttons = <<FALSE, FALSE, TRUE>>
    /\ Len(last.queue_before) = 1
    /\ event_queue = last.queue_before
    /\ mouse_position = <<10, 20>>
    /\ mouse_buttons = <<FALSE, FALSE, TRUE>>

\* the kinds of native event that have an arm registering an event
RegisteringKinds == {"Button", "Key", "Quit", "Resize"}

\* C13: a native event of a kind without an arm queues nothing, changes
\* neither the stored tri-state nor the recorded position, raises no error
\* and does not keep the events after it from being processed.
C13_UnknownKindsIgnored ==
    last.called =>
        /\ ~last.unwound
        /\ Len(Emitted) =
              Cardinality({i \in 1..Len(last.batch) :
                              last.batch[i].kind \in RegisteringKinds})
        /\ mouse_buttons = StoredAfter
        /\ mouse_position = PositionAfter
        /\ (\A i \in 1..Len(last.batch) :
               last.batch[i].kind \notin RegisteringKinds \cup {"Mouse"}) =>
              /\ event_queue = last.queue_before
              /\ mouse_buttons = last.buttons
              /\ mouse_position = last.position

\* C13 witness: a call found a Focus event followed by a Quit event and
\* queued the SystemQuit of the second.
C13_Witness ==
    /\ last.called
    /\ Len(last.batch) = 2
    /\ last.batch[1] = [kind |-> "Focus"]
    /\ last.batch[2].kind = "Quit"
    /\ Len(Emitted) = 1
    /\ Emitted[1].event = [type |-> "SystemQuit"]

\* C16: the event of a Button event is resolved from the tri-state stored
\* before the event, so a MouseUp that follows held buttons names one of
\* them; after the call the stored tri-state is that of the last Button
\* event found, and it is the one before the call when no Button event was
\* found.
C16_StoredAfterQueued ==
    last.called =>
        /\ Len(MouseOut) = Cardinality(OfKind("Button"))
        /\ \A k \in 1..Len(MouseOut) :
              LET prev == StoredBefore(NthOfKind("Button", k))
              IN  (MouseOut[k].type = "MouseUp" /\ prev # NoButtons) =>
                      prev[ButtonIndex(MouseOut[k].button)]
        /\ OfKind("Button") # {} =>
              LET i == CHOOSE m \in OfKind("Button") :
                          \A n \in OfKind("Button") : n <= m
              IN  mouse_buttons = Flags(last.batch[i])
        /\ OfKind("Button") = {} => mouse_buttons = last.buttons

\* C16 witness: from the all-released state a call found middle pressed and
\* then released; the MouseUp names Middle and the stored state is released.
C16_Witness ==
    /\ last.called
    /\ last.buttons = NoButtons
    /\ Len(last.batch) = 2
    /\ last.batch[1].kind = "Button"
    /\ Flags(last.batch[1]) = <<FALSE, TRUE, FALSE>>
    /\ last.batch[2].kind = "Button"
    /\ Flags(last.batch[2]) = NoButtons
    /\ Len(Emitted) = 2
    /\ Emitted[2].event.type = "MouseUp"
    /\ Emitted[2].event.button = "Middle"
    /\ mouse_buttons = NoButtons

\* C19: a Button event whose flags equal the stored tri-state still queues
\* one mouse event: the MouseUp of Right when nothing is held, and otherwise
\* the MouseDown of the first held button in the order Left, Middle, Right.
C19_RepeatedStateStillQueues ==
    last.called =>
        /\ Len(MouseOut) = Cardinality(OfKind("Button"))
        /\ \A k \in 1..Len(MouseOut) :
              LET i    == NthOfKind("Button", k)
                  prev == StoredBefore(i)
                  new  == Flags(last.batch[i])
                  pos  == PositionBefore(i)
              IN  prev = new =>
                     MouseOut[k] =
                        IF new = NoButtons
                        THEN [type |-> "MouseUp", button |-> "Right",
                              position |-> pos]
                        ELSE [type |-> "MouseDown",
                              button |-> IF new[1] THEN "Left"
                                         ELSE IF new[2] THEN "Middle"
                                         ELSE "Right",
                              position |-> pos]

\* C19 witness: left and middle are held and a call found a Button event
\* with the same flags: the MouseDown of Left was queued again.
C19_Witness ==
    /\ last.called
    /\ last.buttons = <<TRUE, TRUE, FALSE>>
    /\ Len(last.batch) = 1
    /\ last.batch[1].kind = "Button"
    /\ Flags(last.batch[1]) = <<TRUE, TRUE, FALSE>>
    /\ Len(Emitted) = 1
    /\ Emitted[1].event.type = "MouseDown"
    /\ Emitted[1].event.button = "Left"

\* C19 second case: nothing is held and a call found a Button event with no
\* flag set: the MouseUp of Right was queued.
C19_WitnessReleased ==
    /\ last.called
    /\ last.buttons = NoButtons
    /\ Len(last.batch) = 1
    /\ last.batch[1].kind = "Button"
    /\ Flags(last.batch[1]) = NoButtons
    /\ Len(Emitted) = 1
    /\ Emitted[1].event.type = "MouseUp"
    /\ Emitted[1].event.button = "Right"

---------------------------------------------------------------------------
(* Further claims about the runner's loop.                                 *)

\* C14: without a world the tick position is passed with nothing changed
\* but the position; no tick is ever counted, every iteration still clears
\* the update flag and drains, and the loop leaves only at a false running
\* flag.
C14_NoWorldIsNoOp ==
    /\ [](~has_world /\ pc # "idle" =>
            /\ ticks = 0
            /\ pc = "drain" => ~update /\ drains = iteration - 1
            /\ pc \in {"check", "stopped"} =>
                  /\ drains = iteration
                  /\ iteration > 0 => ~update /\ last.called
            /\ pc = "stopped" => ~running)
    /\ [][ /\ (~has_world /\ pc = "tick") =>
                /\ pc' = "clear"
                /\ UNCHANGED <<event_queue, update, running, ticks, drains,
                               iteration, mouse_buttons, mouse_position,
                               queue_cell, backend_cell>>
           /\ (~has_world /\ pc = "check" /\ running) => pc' = "tick" ]_vars

\* C14 witness: no world is attached, two iterations have run and drained,
\* no tick was made, and the events drained are still queued.
C14_Witness ==
    /\ ~has_world
    /\ pc = "check"
    /\ running
    /\ iteration = 2
    /\ drains = 2
    /\ ticks = 0
    /\ ~update
    /\ event_queue # <<>>

\* C15: in every iteration the tick comes first, the clearing of the update
\* flag second and the drain third: the flag is false when the drain starts
\* and when the iteration ends, and the tick of the iteration has been made
\* by the time the flag is cleared.
C15_TickClearDrain ==
    /\ pc = "clear" =>
          /\ drains = iteration - 1
          /\ has_world => ticks = iteration
    /\ pc = "drain" =>
          /\ ~update
          /\ drains = iteration - 1
          /\ has_world => ticks = iteration
    /\ (pc \in {"check", "stopped"} /\ iteration > 0) =>
          /\ ~update
          /\ drains = iteration
          /\ has_world => ticks = iteration

\* C15 witness: the second iteration has ticked the world and cleared the
\* flag and is about to drain.
C15_Witness ==
    /\ pc = "drain"
    /\ has_world
    /\ iteration = 2
    /\ ticks = 2
    /\ drains = 1
    /\ ~update

\* C17: no borrow of the queue's cell or of the backend's cell is
\* outstanding between the steps of the loop, no borrow ever found the cell
\* borrowed, and during a drain_events call at most one borrow of the
\* queue's cell was outstanding at a time.
C17_OneBorrowAtATime ==
    /\ queue_cell = [count |-> 0, panicked |-> FALSE]
    /\ backend_cell = [count |-> 0, panicked |-> FALSE]
    /\ last.called =>
          /\ ~last.unwound
          /\ last.peak <= 1
          /\ Len(Emitted) > 0 => last.peak = 1

\* C17 witness: a call registered two events, one borrow at a time, and the
\* world has ticked since with the backend's cell free.
C17_Witness ==
    /\ last.called
    /\ Len(Emitted) = 2
    /\ last.peak = 1
    /\ has_world
    /\ pc = "clear"
    /\ iteration = 2
    /\ queue_cell.count = 0
    /\ backend_cell.count = 0

\* the positions in the last batch of the events of registering kinds
Emitters ==
    {i \in 1..Len(last.batch) : last.batch[i].kind \in RegisteringKinds}

\* the position in the last batch of the k-th event of a registering kind
NthEmitter(k) ==
    CHOOSE i \in Emitters : Cardinality({j \in Emitters : j <= i}) = k

\* the types of toolkit event a native kind is translated to
TypesOf(kind) ==
    CASE kind = "Button" -> {"MouseUp", "MouseDown"}
      [] kind = "Key"    -> {"KeyUp", "KeyDown"}
      [] kind = "Quit"   -> {"SystemQuit"}
      [] kind = "Resize" -> {"WindowResize"}

\* C18: one call appends to the queue one entry per pending Button, Key,
\* Quit and Resize event, in the order of those events, each with priority
\* 0, behind the entries already queued; an empty batch leaves the queue
\* unchanged.
C18_EveryPendingEventInOrder ==
    last.called =>
        /\ Len(last.queue_after) >= Len(last.queue_before)
        /\ SubSeq(last.queue_after, 1, Len(last.queue_before)) = last.queue_before
        /\ Len(Emitted) = Cardinality(Emitters)
        /\ \A k \in 1..Len(Emitted) :
              /\ Emitted[k].priority = 0
              /\ Emitted[k].event.type \in TypesOf(last.batch[NthEmitter(k)].kind)
        /\ last.batch = <<>> => last.queue_after = last.queue_before

\* C18 witness: a call found a Resize event and then a Quit event and
\* appended a WindowResize followed by a SystemQuit.
C18_Witness ==
    /\ last.called
    /\ Len(last.batch) = 2
    /\ last.batch[1].kind = "Resize"
    /\ last.batch[2].kind = "Quit"
    /\ Len(Emitted) = 2
    /\ Emitted[1].event.type = "WindowResize"
    /\ Emitted[2].event.type = "SystemQuit"
    /\ Emitted[1].priority = 0
    /\ Emitted[2].priority = 0

\* C18 second case: a call found nothing pending and left a queue that
\* holds an entry as it was.
C18_WitnessEmpty ==
    /\ last.called
    /\ last.batch = <<>>
    /\ last.queue_before # <<>>
    /\ event_queue = last.queue_before

\* C20: run called with the running flag false goes from its first flag
\* check to its end: no tick, no drain, and the update flag, the queue and
\* the stored mouse state are as they were at the call.
C20_FalseFlagAtCall ==
    /\ []((pc = "stopped" /\ iteration = 0) =>
            /\ ~running
            /\ ticks = 0
            /\ drains = 0
            /\ ~last.called
            /\ event_queue = <<>>
            /\ mouse_buttons = NoButtons
            /\ mouse_position = <<0, 0>>)
    /\ [][ /\ (pc = "idle" /\ pc' # "idle") =>
                /\ pc' = "check"
                /\ UNCHANGED <<update, running, event_queue, mouse_buttons,
                               mouse_position, ticks, drains, iteration>>
           /\ (pc = "check" /\ iteration = 0 /\ ~running) =>
                /\ pc' = "stopped"
                /\ UNCHANGED <<update, running, event_queue, mouse_buttons,
                               mouse_position, ticks, drains, iteration,
                               last>> ]_vars

\* C20 witness: run was called with the running flag false and the update
\* flag true, and has returned with the update flag still true.
C20_Witness ==
    /\ pc = "stopped"
    /\ iteration = 0
    /\ ~running
    /\ update
    /\ has_world
    /\ ticks = 0
    /\ drains = 0

=============================================================================
